---- MODULE Spec2Model ----
(***************************************************************************)
(* Model of audiofile_read.py (rp_extract): reading audio files through    *)
(* external decoder programs.  The program is sequential; every public     *)
(* function is one action.  A call of subprocess.call is a nondeterministic *)
(* step of the environment, so every function is modelled as the SET of    *)
(* outcomes it can have: records [m |-> machine, res |-> result] where the *)
(* machine m holds the file system, the uuid source, the subprocess calls  *)
(* made so far, the temp names generated so far, the lines printed and the *)
(* sample rates parsed.                                                    *)
(*                                                                         *)
(* Strings are sequences of one-character strings ("a.mp3" is              *)
(* <<"a", ".", "m", "p", "3">>), so that os.path.splitext, str.lower and   *)
(* the "in" operator are computed and not assumed.  Words of a command     *)
(* line that are never taken apart (program names, flags) are one-element  *)
(* sequences.                                                              *)
(*                                                                         *)
(* The sample data, its normalisation and the verbose output take no part  *)
(* in which programs are run and which files exist; of what                *)
(* wavio.readwav returns the model keeps the sample rate.                  *)
(***************************************************************************)
EXTENDS Integers, Sequences, FiniteSets, TLC

VARIABLES fs,       \* the files that exist on disk (a set of paths)
          uuid,     \* how many uuid4() values have been drawn
          op,       \* the function called last
          args,     \* its arguments
          pre,      \* the files that existed when it was called
          calls,    \* the subprocess.call invocations it made, in order
          temps,    \* the names get_temp_filename gave it
          printed,  \* what convert_to_wav printed
          parsed,   \* the sample rates wavio.readwav reported, in order
          res       \* how it ended: a return value or a raised exception

vars == <<fs, uuid, op, args, pre, calls, temps, printed, parsed, res>>

----------------------------------------------------------------------------
(* Bounds *)

\* uuid4() values that may be drawn in one behaviour
MaxUuid == 3

----------------------------------------------------------------------------
(* Strings *)

S(word) == <<word>>

None == <<"None">>

wav_suffix == <<".", "w", "a", "v">>
mp3_suffix == <<".", "m", "p", "3">>
aif_suffix == <<".", "a", "i", "f">>
aiff_suffix == <<".", "a", "i", "f", "f">>
m4a_suffix == <<".", "m", "4", "a">>

\* str.lower, on the letters the paths below use
LowerChar(c) ==
    CASE c = "A" -> "a"
      [] c = "F" -> "f"
      [] c = "I" -> "i"
      [] c = "M" -> "m"
      [] c = "P" -> "p"
      [] c = "V" -> "v"
      [] c = "W" -> "w"
      [] OTHER -> c

lower(s) == [i \in 1..Len(s) |-> LowerChar(s[i])]

\* str.rfind, 1-based; 0 when ch does not occur
rfind(p, ch) ==
    LET hits == {i \in 1..Len(p) : p[i] = ch}
    IN  IF hits = {} THEN 0 ELSE CHOOSE i \in hits : \A j \in hits : j <= i

\* os.path.splitext: the extension starts at the last dot of the last path
\* component, unless only dots precede it there
splitext(p) ==
    LET sepIndex == rfind(p, "/")
        dotIndex == rfind(p, ".")
    IN  IF dotIndex > sepIndex
           /\ \E k \in (sepIndex + 1)..(dotIndex - 1) : p[k] # "."
        THEN [root |-> SubSeq(p, 1, dotIndex - 1),
              ext  |-> SubSeq(p, dotIndex, Len(p))]
        ELSE [root |-> p, ext |-> <<>>]

\* "x in s" for two strings: x is a substring of s
IsSubstring(x, s) ==
    \E i \in 0..(Len(s) - Len(x)) : SubSeq(s, i + 1, i + Len(x)) = x

----------------------------------------------------------------------------
(* Results of a call *)

Return(v) ==
    [kind |-> "return", exc |-> "", msg |-> "", value |-> v, rate |-> 0,
     command |-> <<>>, errno |-> 0, listed |-> <<>>]

\* the tuple (samplerate, samplewidth, wavedata), reduced to its sample rate
ReturnAudio(r) ==
    [kind |-> "return", exc |-> "", msg |-> "", value |-> None, rate |-> r,
     command |-> <<>>, errno |-> 0, listed |-> <<>>]

Raise(e, text) ==
    [kind |-> "raise", exc |-> e, msg |-> text, value |-> None, rate |-> 0,
     command |-> <<>>, errno |-> 0, listed |-> <<>>]

\* DecoderException(message, command, orig_error); errno 0 is "no orig_error"
DecoderException(text, cmd, orig_errno) ==
    [kind |-> "raise", exc |-> "DecoderException", msg |-> text,
     value |-> None, rate |-> 0,
     command |-> cmd, errno |-> orig_errno, listed |-> <<>>]

----------------------------------------------------------------------------
(* The environment: the file system, uuid4 and subprocess.call *)

\* errno of "No such file or directory"
ENOENT == 2

\* What one subprocess.call can do: fail to launch (OSError with an errno,
\* the program missing or not executable), or run and exit with a code,
\* having written its output file or not.
Outcomes ==
    {[errno |-> 0, rc |-> 0, wrote |-> TRUE],
     [errno |-> 0, rc |-> 0, wrote |-> FALSE],
     [errno |-> 0, rc |-> 1, wrote |-> TRUE],
     [errno |-> 0, rc |-> 1, wrote |-> FALSE],
     [errno |-> ENOENT, rc |-> -1, wrote |-> FALSE],
     [errno |-> 13, rc |-> -1, wrote |-> FALSE]}

\* subprocess.call(cmd): the call is recorded with what came of it; targets
\* are the files the program writes when it writes
subprocess_call(m, cmd, targets) ==
    {[m |-> [m EXCEPT !.calls = Append(@, [cmd |-> cmd, errno |-> o.errno,
                                             rc |-> o.rc]),
                      !.fs = IF o.wrote THEN @ \cup targets ELSE @],
      errno |-> o.errno,
      rc |-> o.rc] : o \in Outcomes}

\* if os.path.exists(f): os.remove(f)
remove_if_exists(m, f) == [m EXCEPT !.fs = @ \ {f}]

\* get_temp_filename(suffix): <tempdir>/<uuid4><suffix>, a name no earlier
\* call was given
get_temp_filename(m, suffix) ==
    [m    |-> [m EXCEPT !.uuid = @ + 1,
                        !.temps = @ \cup
                          {<<"/", "t", "/", "u", ToString(m.uuid + 1)>> \o suffix}],
     name |-> <<"/", "t", "/", "u", ToString(m.uuid + 1)>> \o suffix]

----------------------------------------------------------------------------
(* decode *)

\* cmd_list with mpg123 put before ffmpeg
cmd_list_Mpg123First(in_filename, out_filename) ==
    << <<S("mpg123"), S("-q"), S("-w"), out_filename, in_filename>>,
       <<S("ffmpeg"), S("-v"), S("1"), S("-y"), S("-i"),
         in_filename, out_filename>>,
       <<S("lame"), S("--quiet"), S("--decode"), in_filename, out_filename>> >>

\* cmd_list of decode
cmd_list(in_filename, out_filename) ==
    << <<S("ffmpeg"), S("-v"), S("1"), S("-y"), S("-i"),
         in_filename, out_filename>>,
       <<S("mpg123"), S("-q"), S("-w"), out_filename, in_filename>>,
       <<S("lame"), S("--quiet"), S("--decode"), in_filename, out_filename>> >>

\* cmd_types of decode: cmd1_types is a tuple of strings, cmd2_types and
\* cmd3_types are plain strings
cmd_types ==
    << [tuple |-> TRUE,
        items |-> {mp3_suffix, aif_suffix, aiff_suffix, m4a_suffix},
        str   |-> <<>>],
       [tuple |-> FALSE, items |-> {}, str |-> mp3_suffix],
       [tuple |-> FALSE, items |-> {}, str |-> mp3_suffix] >>

\* "ext in types": membership in a tuple, substring of a string
InTypes(ext, types) ==
    IF types.tuple THEN ext \in types.items ELSE IsSubstring(ext, types.str)

\* the OSError raised when the loop ends with success = False; its message
\* holds ext and c[0] for every c of cmd_list
NoDecoderError(ext, cmds) ==
    [kind |-> "raise", exc |-> "OSError", msg |-> "No appropriate decoder found",
     value |-> None, rate |-> 0, command |-> <<>>, errno |-> 0,
     listed |-> [i \in 1..Len(cmds) |-> cmds[i][1]]]

\* try_command with a nonzero exit code ignored: the loop goes on
try_command_FallThrough(c, cmd) ==
    IF c.errno # 0
    THEN IF c.errno # ENOENT
         THEN [raised |-> TRUE, success |-> FALSE,
               res |-> DecoderException("Problem appeared during decoding.",
                                        cmd, c.errno)]
         ELSE [raised |-> FALSE, success |-> FALSE, res |-> Return(None)]
    ELSE [raised |-> FALSE, success |-> (c.rc = 0), res |-> Return(None)]

\* try_command with every OSError raised, errno 2 included
try_command_RaiseOnMissing(c, cmd) ==
    IF c.errno # 0
    THEN [raised |-> TRUE, success |-> FALSE,
          res |-> DecoderException("Problem appeared during decoding.",
                                   cmd, c.errno)]
    ELSE IF c.rc # 0
         THEN [raised |-> TRUE, success |-> FALSE,
               res |-> DecoderException("Problem appeared during decoding.",
                                        cmd, 0)]
         ELSE [raised |-> FALSE, success |-> TRUE, res |-> Return(None)]

\* the try statement of decode's loop, given what subprocess.call(cmd) did
\* (c): it raises, or it leaves success set or not
try_command(c, cmd) ==
    IF c.errno # 0
    THEN IF c.errno # ENOENT
         THEN [raised |-> TRUE, success |-> FALSE,
               res |-> DecoderException("Problem appeared during decoding.",
                                        cmd, c.errno)]
         ELSE [raised |-> FALSE, success |-> FALSE, res |-> Return(None)]
    ELSE IF c.rc # 0
         THEN [raised |-> TRUE, success |-> FALSE,
               res |-> DecoderException("Problem appeared during decoding.",
                                        cmd, 0)]
         ELSE [raised |-> FALSE, success |-> TRUE, res |-> Return(None)]

\* the for loop of decode from its i-th command on, success still False,
\* and the statements after the loop
RECURSIVE decode_loop(_, _, _, _, _)
decode_loop(m, i, ext, cmds, out_filename) ==
    IF i > Len(cmds)
    THEN {[m |-> m, res |-> NoDecoderError(ext, cmds)]}
    ELSE IF InTypes(ext, cmd_types[i])
    THEN UNION {
           LET t == try_command(c, cmds[i])
           IN  IF t.raised THEN {[m |-> c.m, res |-> t.res]}
               ELSE IF t.success THEN {[m |-> c.m, res |-> Return(None)]}
               ELSE decode_loop(c.m, i + 1, ext, cmds, out_filename)
           : c \in subprocess_call(m, cmds[i], {out_filename}) }
    ELSE decode_loop(m, i + 1, ext, cmds, out_filename)

\* decode(in_filename, out_filename=None)
decode(m, in_filename, out_filename) ==
    LET se  == splitext(in_filename)
        ext == lower(se.ext)
        out == IF out_filename = None THEN se.root \o wav_suffix
               ELSE out_filename
    IN  decode_loop(m, 1, ext, cmd_list(in_filename, out), out)

\* mp3_decode(in_filename, out_filename=None)
mp3_decode(m, in_filename, out_filename) ==
    decode(m, in_filename, out_filename)

----------------------------------------------------------------------------
(* resample and wav_read *)

\* the sample rates wavio.readwav may report for a file
SampleRates == {8000, 11025, 22050, 44100, 48000}

\* StandardRates with 11025 forgotten
StandardRates_Without11025 == {22050, 44100}

\* the rates wav_read leaves as they are
StandardRates == {11025, 22050, 44100}

\* resample(filename, to_samplerate)
resample(m, filename, to_samplerate) ==
    LET t   == get_temp_filename(m, wav_suffix)
        cmd == <<S("ffmpeg"), S("-v"), S("1"), S("-y"), S("-i"), filename,
                 S("-ar"), S(ToString(to_samplerate)), t.name>>
    IN  UNION {
          IF c.errno = 0
          THEN IF c.rc # 0
               THEN {[m |-> c.m,
                      res |-> DecoderException("Problem appeared during resampling.",
                                               cmd, 0)]}
               ELSE {[m |-> c.m, res |-> Return(t.name)]}
          ELSE LET m1 == remove_if_exists(c.m, t.name)
               IN  IF c.errno = ENOENT
                   THEN UNION {
                          IF b.errno # 0
                          THEN {[m |-> b.m,
                                 res |-> DecoderException(
                                           "Decoder not found. Please install",
                                           cmd, b.errno)]}
                          ELSE {[m |-> b.m,
                                 res |-> DecoderException(
                                           "Unknown problem appeared during resampling.",
                                           cmd, c.errno)]}
                          : b \in subprocess_call(m1, <<cmd[1]>>, {}) }
                   ELSE {[m |-> m1,
                          res |-> DecoderException(
                                    "Unknown problem appeared during resampling.",
                                    cmd, c.errno)]}
          : c \in subprocess_call(t.m, cmd, {t.name}) }

\* wavio.readwav(filename): any of the sample rates, or IOError when the
\* file is not there
readwav(m, filename) ==
    IF filename \in m.fs
    THEN {[m |-> [m EXCEPT !.parsed = Append(@, r)], res |-> ReturnAudio(r)]
          : r \in SampleRates}
    ELSE {[m |-> m, res |-> Raise("IOError", "No such file or directory")]}

\* wavio.readwav of a file ffmpeg wrote with -ar to_samplerate
resampled_readwav(m, filename, to_samplerate) ==
    IF filename \in m.fs
    THEN {[m |-> [m EXCEPT !.parsed = Append(@, to_samplerate)],
           res |-> ReturnAudio(to_samplerate)]}
    ELSE {[m |-> m, res |-> Raise("IOError", "No such file or directory")]}

\* wav_read(filename, normalize, verbose, auto_resample)
wav_read(m, filename, auto_resample) ==
    IF filename \notin m.fs
    THEN {[m |-> m, res |-> Raise("NameError", "File does not exist:")]}
    ELSE UNION {
           IF auto_resample /\ w.res.rate \notin StandardRates
           THEN LET to_samplerate == IF w.res.rate < 22050 THEN 22050 ELSE 44100
                IN  UNION {
                      IF r.res.kind = "raise"
                      THEN {r}
                      ELSE {IF w2.res.kind = "raise"
                            THEN w2
                            ELSE w2
                            : w2 \in resampled_readwav(r.m, r.res.value,
                                                       to_samplerate)}
                      : r \in resample(w.m, filename, to_samplerate) }
           ELSE {w}
           : w \in readwav(m, filename) }

----------------------------------------------------------------------------
(* audiofile_read and convert_to_wav *)

\* audiofile_read(filename, normalize, verbose)
audiofile_read(m, filename) ==
    IF filename \notin m.fs
    THEN {[m |-> m, res |-> Raise("NameError", "File does not exist:")]}
    ELSE IF lower(splitext(filename).ext) = wav_suffix
    THEN wav_read(m, filename, TRUE)
    ELSE LET t == get_temp_filename(m, wav_suffix)
         IN  UNION {
               {[m |-> remove_if_exists(b.m, t.name), res |-> b.res]
                : b \in IF d.res.kind = "raise"
                        THEN {d}
                        ELSE wav_read(d.m, t.name, TRUE)}
               : d \in mp3_decode(t.m, filename, t.name) }

\* convert_to_wav with the source removed after a failed decode as well
convert_to_wav_RemoveAlways(m, filename) ==
    IF filename \notin m.fs
    THEN {[m |-> m, res |-> Raise("NameError", "File does not exist:")]}
    ELSE IF lower(splitext(filename).ext) = wav_suffix
    THEN {[m |-> [m EXCEPT !.printed = Append(@, "It is a wav file. No conversion needed")],
           res |-> Return(filename)]}
    ELSE LET out_filename == splitext(filename).root \o wav_suffix
         IN  {IF d.res.kind = "raise"
              THEN IF d.res.exc = "DecoderException"
                   THEN [m |-> [remove_if_exists(remove_if_exists(d.m, out_filename),
                                                 filename)
                                  EXCEPT !.printed = Append(@, "ERROR DECODING FILE:")],
                         res |-> Return(filename)]
                   ELSE d
              ELSE [m |-> remove_if_exists(d.m, filename),
                    res |-> Return(out_filename)]
              : d \in mp3_decode(m, filename, out_filename)}

\* convert_to_wav(filename, verbose)
convert_to_wav(m, filename) ==
    IF filename \notin m.fs
    THEN {[m |-> m, res |-> Raise("NameError", "File does not exist:")]}
    ELSE IF lower(splitext(filename).ext) = wav_suffix
    THEN {[m |-> [m EXCEPT !.printed = Append(@, "It is a wav file. No conversion needed")],
           res |-> Return(filename)]}
    ELSE LET out_filename == splitext(filename).root \o wav_suffix
         IN  {IF d.res.kind = "raise"
              THEN IF d.res.exc = "DecoderException"
                   THEN [m |-> [remove_if_exists(d.m, out_filename)
                                  EXCEPT !.printed = Append(@, "ERROR DECODING FILE:")],
                         res |-> Return(filename)]
                   ELSE d
              ELSE [m |-> remove_if_exists(d.m, filename),
                    res |-> Return(out_filename)]
              : d \in mp3_decode(m, filename, out_filename)}

----------------------------------------------------------------------------
(* The state machine *)

\* the audio files of the model: every extension decode knows, in both
\* letter cases, extensions it does not know, no extension at all, a lone
\* dot, proper prefixes of ".mp3", a dot file, and a file that is missing
a_mp3 == <<"a">> \o mp3_suffix
a_MP3 == <<"a", ".", "M", "P", "3">>
a_aif == <<"a">> \o aif_suffix
a_aiff == <<"a">> \o aiff_suffix
a_m4a == <<"a">> \o m4a_suffix
a_wav == <<"a">> \o wav_suffix
a_WAV == <<"a", ".", "W", "A", "V">>
a_ogg == <<"a", ".", "o", "g", "g">>
a_noext == <<"a">>
a_dot == <<"a", ".">>
a_m == <<"a", ".", "m">>
a_mp == <<"a", ".", "m", "p">>
dot_mp3 == mp3_suffix
missing_mp3 == <<"x">> \o mp3_suffix
o_wav == <<"o">> \o wav_suffix

\* the files on disk at the start
OnDisk == {a_mp3, a_aif, a_wav, a_WAV, a_ogg, a_noext}

\* the paths audiofile_read, wav_read and convert_to_wav are called with,
\* in the order they are tried
InputPaths == <<a_mp3, a_aif, a_wav, a_WAV, a_ogg, a_noext, missing_mp3>>

\* the paths decode is called with, in the order they are tried
DecodePaths ==
    <<a_mp3, a_MP3, a_aif, a_aiff, a_m4a, a_wav, a_WAV, a_ogg, a_noext,
      a_dot, a_m, a_mp, dot_mp3>>

\* the out_filename arguments decode is called with
OutputPaths == <<None, o_wav>>

\* the machine a call starts on
Machine == [fs |-> fs, uuid |-> uuid, calls |-> <<>>, temps |-> {},
            printed |-> <<>>, parsed |-> <<>>]

Init ==
    /\ fs = OnDisk
    /\ uuid = 0
    /\ op = "init"
    /\ args = [filename |-> None, out_filename |-> None, auto_resample |-> TRUE]
    /\ pre = OnDisk
    /\ calls = <<>>
    /\ temps = {}
    /\ printed = <<>>
    /\ parsed = <<>>
    /\ res = Return(None)

\* the call of function `name` with these arguments ends as r
Ends(name, filename, out_filename, auto_resample, r) ==
    /\ op' = name
    /\ args' = [filename |-> filename, out_filename |-> out_filename,
                auto_resample |-> auto_resample]
    /\ pre' = fs
    /\ fs' = r.m.fs
    /\ uuid' = r.m.uuid
    /\ calls' = r.m.calls
    /\ temps' = r.m.temps
    /\ printed' = r.m.printed
    /\ parsed' = r.m.parsed
    /\ res' = r.res

Decode ==
    \E k \in 1..Len(DecodePaths), j \in 1..Len(OutputPaths) :
        \E r \in decode(Machine, DecodePaths[k], OutputPaths[j]) :
            Ends("decode", DecodePaths[k], OutputPaths[j], TRUE, r)

Mp3Decode ==
    \E k \in 1..Len(DecodePaths), j \in 1..Len(OutputPaths) :
        \E r \in mp3_decode(Machine, DecodePaths[k], OutputPaths[j]) :
            Ends("mp3_decode", DecodePaths[k], OutputPaths[j], TRUE, r)

\* wav_read draws at most one uuid
WavRead ==
    /\ uuid + 1 <= MaxUuid
    /\ \E k \in 1..Len(InputPaths), a \in BOOLEAN :
        \E r \in wav_read(Machine, InputPaths[k], a) :
            Ends("wav_read", InputPaths[k], None, a, r)

\* audiofile_read draws at most two uuids
AudiofileRead ==
    /\ uuid + 2 <= MaxUuid
    /\ \E k \in 1..Len(InputPaths) :
        \E r \in audiofile_read(Machine, InputPaths[k]) :
            Ends("audiofile_read", InputPaths[k], None, TRUE, r)

ConvertToWav ==
    \E k \in 1..Len(InputPaths) :
        \E r \in convert_to_wav(Machine, InputPaths[k]) :
            Ends("convert_to_wav", InputPaths[k], None, TRUE, r)

Next == Decode \/ Mp3Decode \/ WavRead \/ AudiofileRead \/ ConvertToWav

Spec == Init /\ [][Next]_vars

\* The calls share nothing but the disk and the uuid source, and the state
\* keeps the whole record of the last call, so the states of Spec are the
\* product of the disks and the records.  The properties of one function
\* are checked on the behaviours made of that function's calls.
SpecDecode == Init /\ [][Decode \/ Mp3Decode]_vars

SpecRead == Init /\ [][AudiofileRead \/ WavRead]_vars

SpecConvert == Init /\ [][ConvertToWav]_vars

----------------------------------------------------------------------------
(* Properties *)

\* the last call was decode, directly or through mp3_decode
DecodeCalled == op \in {"decode", "mp3_decode"}

\* the lower-cased extension of the last call's input
Ext == lower(splitext(args.filename).ext)

\* the program the i-th subprocess call ran
Exe(i) == calls[i].cmd[1][1]

\* the place of a decoder in the documented order ffmpeg, mpg123, lame
Priority(exe) ==
    CASE exe = "ffmpeg" -> 1
      [] exe = "mpg123" -> 2
      [] exe = "lame" -> 3
      [] OTHER -> 0

\* the i-th subprocess call launched and exited with code 0
Succeeded(i) == calls[i].errno = 0 /\ calls[i].rc = 0

\* the extensions decode documents: ffmpeg for mp3, aif(f), m4a
SupportedNonWav == {mp3_suffix, aif_suffix, aiff_suffix, m4a_suffix}

\* cmd is one of decode's three command lines, whatever its file arguments
IsDecodeCommand(cmd) ==
    \E k \in 1..3 :
        LET shape == cmd_list(None, None)[k]
        IN  /\ Len(cmd) = Len(shape)
            /\ \A j \in 1..Len(shape) : shape[j] # None => cmd[j] = shape[j]

\* cmd is resample's command line, or the bare program name it runs to see
\* whether ffmpeg can be launched at all
IsResampleCommand(cmd) ==
    \/ cmd = <<S("ffmpeg")>>
    \/ /\ Len(cmd) = 9
       /\ cmd[1] = S("ffmpeg")
       /\ cmd[7] = S("-ar")

\* the last call was audiofile_read of an existing file with extension .wav
ReadOfWav ==
    /\ op = "audiofile_read"
    /\ args.filename \in pre
    /\ Ext = wav_suffix

\* C1: after audiofile_read, returned or raised, none of the temp files of
\* that call (the decode output, the resampler output) is left on disk.
C1_NoTempFileLeft ==
    op = "audiofile_read" => temps \cap fs = {}

\* C2 as stated: audiofile_read of an existing .wav file runs no external
\* program (ffmpeg, mpg123, lame), whatever the parsed sample rate.
C2_WavRunsNoProgram ==
    ReadOfWav => calls = <<>>

\* C2 amended: audiofile_read of an existing .wav file runs none of
\* decode's commands; it runs a subprocess only when the parsed sample rate
\* is not 11025, 22050 or 44100, and then only the ffmpeg resampler.
C2_WavRunsOnlyResampler ==
    ReadOfWav =>
        /\ \A i \in 1..Len(calls) :
              /\ ~IsDecodeCommand(calls[i].cmd)
              /\ IsResampleCommand(calls[i].cmd)
        /\ calls # <<>> =>
              /\ parsed # <<>>
              /\ parsed[1] \notin {11025, 22050, 44100}

C2_Witness ==
    /\ ReadOfWav
    /\ args.filename = a_WAV
    /\ parsed = <<48000, 44100>>
    /\ Len(calls) = 1
    /\ res.kind = "return"

\* C3: decode runs a decoder only for an extension the decoder is
\* documented for (ffmpeg: .mp3 .aif .aiff .m4a; mpg123 and lame: .mp3);
\* for every other extension it runs nothing and raises the
\* no-decoder-found error.
C3_DecoderOnlyForItsExtensions ==
    DecodeCalled =>
        /\ \A i \in 1..Len(calls) :
              /\ Exe(i) = "ffmpeg" => Ext \in SupportedNonWav
              /\ Exe(i) \in {"mpg123", "lame"} => Ext = mp3_suffix
        /\ Ext \notin SupportedNonWav =>
              /\ calls = <<>>
              /\ res.kind = "raise"
              /\ res.exc = "OSError"

\* C4: decode runs decoders only in the order ffmpeg, mpg123, lame, and none
\* after one that exited with 0; for a supported non-WAV extension the first
\* one run is ffmpeg, and when it could be launched it is the only one run.
C4_PriorityOrderStopAtSuccess ==
    DecodeCalled =>
        /\ \A i, j \in 1..Len(calls) :
              i < j => Priority(Exe(i)) < Priority(Exe(j))
        /\ \A i \in 1..Len(calls) : Succeeded(i) => i = Len(calls)
        /\ Ext \in SupportedNonWav =>
              /\ calls # <<>>
              /\ Exe(1) = "ffmpeg"
              /\ calls[1].errno = 0 => Len(calls) = 1

C4_Witness ==
    /\ op = "decode"
    /\ args.filename = a_mp3
    /\ Len(calls) = 1
    /\ Exe(1) = "ffmpeg"
    /\ Succeeded(1)
    /\ res.kind = "return"

\* C5: a decoder that launched and exited nonzero ends decode at once with
\* a DecoderException carrying that command: it is the last call made, and
\* no command line is run twice.
C5_NonzeroExitRaisesAtOnce ==
    DecodeCalled =>
        /\ \A i \in 1..Len(calls) :
              (calls[i].errno = 0 /\ calls[i].rc # 0) =>
                  /\ i = Len(calls)
                  /\ res.kind = "raise"
                  /\ res.exc = "DecoderException"
                  /\ res.command = calls[i].cmd
        /\ \A i, j \in 1..Len(calls) : i # j => calls[i].cmd # calls[j].cmd

C5_Witness ==
    /\ op = "decode"
    /\ args.filename = a_mp3
    /\ Len(calls) = 1
    /\ Exe(1) = "ffmpeg"
    /\ calls[1].errno = 0
    /\ calls[1].rc # 0
    /\ res.exc = "DecoderException"

\* C6: a decoder whose launch failed with errno 2 raises nothing: the next
\* candidate is run (for .mp3 the next of ffmpeg, mpg123, lame), and the
\* no-decoder-found error is raised only when every call made failed that
\* way; a launch that failed with another errno ends decode at once with a
\* DecoderException carrying that errno and command.
C6_MissingDecoderIsSkipped ==
    DecodeCalled =>
        /\ \A i \in 1..Len(calls) :
              calls[i].errno = ENOENT =>
                  /\ i = Len(calls) =>
                        (res.kind = "raise" /\ res.exc = "OSError")
                  /\ (Ext = mp3_suffix /\ Priority(Exe(i)) < 3) =>
                        /\ i < Len(calls)
                        /\ Priority(Exe(i + 1)) = Priority(Exe(i)) + 1
        /\ (res.kind = "raise" /\ res.exc = "OSError") =>
              \A i \in 1..Len(calls) : calls[i].errno = ENOENT
        /\ \A i \in 1..Len(calls) :
              calls[i].errno \notin {0, ENOENT} =>
                  /\ i = Len(calls)
                  /\ res.kind = "raise"
                  /\ res.exc = "DecoderException"
                  /\ res.errno = calls[i].errno
                  /\ res.command = calls[i].cmd

C6_Witness ==
    /\ op = "decode"
    /\ args.filename = a_mp3
    /\ Len(calls) = 2
    /\ calls[1].errno = ENOENT
    /\ Exe(2) = "mpg123"
    /\ Succeeded(2)
    /\ res.kind = "return"

\* C7: the programs the no-decoder-found error lists are the decoders
\* decode ran for the input's extension.
C7_ListedNamesAreAttempted ==
    (DecodeCalled /\ res.kind = "raise" /\ res.exc = "OSError") =>
        {res.listed[i][1] : i \in 1..Len(res.listed)}
            = {Exe(i) : i \in 1..Len(calls)}

\* C8: convert_to_wav of an existing non-WAV file whose decode fails (no
\* decoder exited with 0) does not raise: it prints the error, returns the
\* path it was given, leaves the source on disk and no sibling .wav.
C8_ConvertFailureIsNotFatal ==
    (/\ op = "convert_to_wav"
     /\ args.filename \in pre
     /\ Ext # wav_suffix
     /\ ~\E i \in 1..Len(calls) : Succeeded(i)) =>
        /\ res.kind = "return"
        /\ res.value = args.filename
        /\ args.filename \in fs
        /\ a_wav \notin fs
        /\ printed = <<"ERROR DECODING FILE:">>

\* C9: convert_to_wav deletes the source exactly when a decoder exited with
\* 0 in that call, and then returns the sibling .wav path; for a source with
\* extension .wav in any letter case it returns the path as given, runs no
\* program and leaves the disk as it was.
C9_SourceRemovedIffDecoded ==
    op = "convert_to_wav" =>
        /\ (args.filename \in pre /\ args.filename \notin fs)
              <=> (\E i \in 1..Len(calls) : Succeeded(i))
        /\ (\E i \in 1..Len(calls) : Succeeded(i)) => res = Return(a_wav)
        /\ (args.filename \in pre /\ Ext = wav_suffix) =>
              /\ res = Return(args.filename)
              /\ calls = <<>>
              /\ fs = pre

C9_Witness ==
    /\ op = "convert_to_wav"
    /\ args.filename = a_mp3
    /\ a_mp3 \in pre
    /\ a_mp3 \notin fs
    /\ a_wav \in fs
    /\ res = Return(a_wav)

\* C10: decode, and mp3_decode, return the output path when they succeed:
\* the out_filename given, else the input path with its extension replaced
\* by .wav.
C10_DecodeReturnsOutputPath ==
    (DecodeCalled /\ res.kind = "return") =>
        res.value = IF args.out_filename = None
                    THEN splitext(args.filename).root \o wav_suffix
                    ELSE args.out_filename

====
